---------------------------- MODULE Spec2Model ----------------------------
(***************************************************************************)
(* Model of the grid-parsing, code-resolution and summary-aggregation core *)
(* of the weekly technician summary (src/app.py).                          *)
(*                                                                         *)
(* A Python str is modelled as a sequence of one-character strings, so     *)
(* that strip, upper, capitalize, isdigit, int and the regular             *)
(* expressions of the source are computed character by character.          *)
(***************************************************************************)
EXTENDS Integers, Sequences, FiniteSets, TLC

VARIABLES
    pc,             \* the operation that has run on the inputs, "start" before
    code,           \* argument of describe_sigla / get_company_for_code
    description,    \* result of describe_sigla(code)
    company,        \* result of get_company_for_code(code)
    indices,        \* argument of compress_days
    days_str,       \* result of compress_days(indices)
    daily_info,     \* argument of build_resumen_lines / get_main_company_from_daily_info
    lines,          \* result of build_resumen_lines(daily_info)
    main_company,   \* result of get_main_company_from_daily_info(daily_info)
    df,             \* the grid read from the worksheet (rows of cells)
    month_sheet,    \* result of load_month_sheet: the MonthSheet or the raised error
    tech_name,      \* argument of get_assignment
    day,            \* argument of get_assignment
    day_row_idx,    \* local of load_month_sheet: the result of find_day_row(df)
    assignment,     \* result of get_assignment(month_sheet, tech_name, day)
    week_dates,     \* main: the dates of the selected week, each with d in festivos
    daily_info_all, \* main: the full set of the technician tech_name
    daily_info_resumen, \* main: the included set of the technician tech_name
    groups          \* build_resumen_lines: ordered_groups of the included set

vars == << pc, code, description, company, indices, days_str, daily_info, lines,
           main_company, df, month_sheet, tech_name, day, day_row_idx, assignment,
           week_dates, daily_info_all, daily_info_resumen, groups >>

-----------------------------------------------------------------------------
(* Characters and the str methods the source uses.                          *)

\* The printable ASCII characters in code point order, without the grave
\* accent (code point 96): Ascii[i] is chr(31 + i) and AsciiHigh[i] is chr(96 + i).
Ascii ==
    << " ", "!", "\"", "#", "$", "%", "&", "'", "(", ")", "*", "+", ",", "-", ".", "/",
       "0", "1", "2", "3", "4", "5", "6", "7", "8", "9", ":", ";", "<", "=", ">", "?",
       "@", "A", "B", "C", "D", "E", "F", "G", "H", "I", "J", "K", "L", "M", "N", "O",
       "P", "Q", "R", "S", "T", "U", "V", "W", "X", "Y", "Z", "[", "\\", "]", "^", "_" >>

AsciiHigh ==
    << "a", "b", "c", "d", "e", "f", "g", "h", "i", "j", "k", "l", "m", "n", "o",
       "p", "q", "r", "s", "t", "u", "v", "w", "x", "y", "z", "{", "|", "}", "~" >>

\* Letters outside ASCII that the name pattern of is_person_name lists.
UpperAccented == << "Á", "É", "Í", "Ó", "Ú", "Ü", "Ñ" >>
LowerAccented == << "á", "é", "í", "ó", "ú", "ü", "ñ" >>

AccentedCodePoint ==
    [c \in {UpperAccented[i] : i \in 1..7} \cup {LowerAccented[i] : i \in 1..7} |->
        CASE c = "Á" -> 193 [] c = "É" -> 201 [] c = "Í" -> 205 [] c = "Ó" -> 211
          [] c = "Ú" -> 218 [] c = "Ü" -> 220 [] c = "Ñ" -> 209
          [] c = "á" -> 225 [] c = "é" -> 233 [] c = "í" -> 237 [] c = "ó" -> 243
          [] c = "ú" -> 250 [] c = "ü" -> 252 [] c = "ñ" -> 241]

Char ==
    {Ascii[i] : i \in 1..Len(Ascii)} \cup {AsciiHigh[i] : i \in 1..Len(AsciiHigh)}
        \cup DOMAIN AccentedCodePoint \cup {"\t"}

\* ord(c): Python compares and sorts strings by code point.
ord ==
    [c \in Char |->
        IF c = "\t" THEN 9
        ELSE IF c \in DOMAIN AccentedCodePoint THEN AccentedCodePoint[c]
        ELSE IF \E i \in 1..Len(Ascii) : Ascii[i] = c
             THEN 31 + (CHOOSE i \in 1..Len(Ascii) : Ascii[i] = c)
        ELSE 96 + (CHOOSE i \in 1..Len(AsciiHigh) : AsciiHigh[i] = c)]

chr(n) == CHOOSE c \in Char : ord[c] = n

\* str.isspace / the regular expression class \s, on the characters modelled.
Whitespace == {" ", "\t"}

\* The regular expression class \d and str.isdigit, on the characters modelled.
Digit == {"0", "1", "2", "3", "4", "5", "6", "7", "8", "9"}

IsAsciiUpper(c) == ord[c] >= 65 /\ ord[c] <= 90
IsAsciiLower(c) == ord[c] >= 97 /\ ord[c] <= 122

char_upper ==
    [c \in Char |->
        IF IsAsciiLower(c) THEN chr(ord[c] - 32)
        ELSE IF \E i \in 1..7 : LowerAccented[i] = c
             THEN UpperAccented[CHOOSE i \in 1..7 : LowerAccented[i] = c]
        ELSE c]

char_lower ==
    [c \in Char |->
        IF IsAsciiUpper(c) THEN chr(ord[c] + 32)
        ELSE IF \E i \in 1..7 : UpperAccented[i] = c
             THEN LowerAccented[CHOOSE i \in 1..7 : UpperAccented[i] = c]
        ELSE c]

\* str.upper()
str_upper(s) == [i \in 1..Len(s) |-> char_upper[s[i]]]

\* str.lower()
str_lower(s) == [i \in 1..Len(s) |-> char_lower[s[i]]]

\* str.capitalize(): first character upper-cased, every other one lower-cased.
str_capitalize(s) ==
    [i \in 1..Len(s) |-> IF i = 1 THEN char_upper[s[i]] ELSE char_lower[s[i]]]

\* str.strip(): leading and trailing whitespace removed.
str_strip(s) ==
    LET inner == {i \in 1..Len(s) : s[i] \notin Whitespace}
    IN  IF inner = {} THEN << >>
        ELSE LET first == CHOOSE i \in inner : \A j \in inner : i <= j
                 last  == CHOOSE i \in inner : \A j \in inner : i >= j
             IN  SubSeq(s, first, last)

\* str.isdigit(): non-empty and every character a digit.
str_isdigit(s) == Len(s) > 0 /\ \A i \in 1..Len(s) : s[i] \in Digit

\* int(s) of a string of digits.
RECURSIVE int_of(_)
int_of(s) ==
    IF Len(s) = 0 THEN 0
    ELSE 10 * int_of(SubSeq(s, 1, Len(s) - 1)) + (ord[s[Len(s)]] - 48)

\* The longest prefix of s made of digits: what (\d+) captures at the start of s.
RECURSIVE DigitPrefix(_)
DigitPrefix(s) ==
    IF Len(s) > 0 /\ s[1] \in Digit THEN << s[1] >> \o DigitPrefix(Tail(s)) ELSE << >>

\* "sep".join(parts)
RECURSIVE str_join(_, _)
str_join(sep, parts) ==
    IF Len(parts) = 0 THEN << >>
    ELSE IF Len(parts) = 1 THEN parts[1]
    ELSE parts[1] \o sep \o str_join(sep, Tail(parts))

\* s < t in Python's ordering of strings (by code point, a proper prefix first).
RECURSIVE str_less(_, _)
str_less(s, t) ==
    IF Len(t) = 0 THEN FALSE
    ELSE IF Len(s) = 0 THEN TRUE
    ELSE IF s[1] # t[1] THEN ord[s[1]] < ord[t[1]]
    ELSE str_less(Tail(s), Tail(t))

-----------------------------------------------------------------------------
(* The static tables (src/app.py:44-123).                                   *)

WEEKDAY_LETTER ==
    0 :> "L" @@ 1 :> "M" @@ 2 :> "X" @@ 3 :> "J" @@ 4 :> "V" @@ 5 :> "S" @@ 6 :> "D"

SIGLA_DESCRIPTIONS ==
    { << <<"L", "3", "1">>, <<"c", "o", "c", "a", "c", "o", "l", "a", " ", "r", "e", "p", "a", "r", "a", "c", "i", "o", "n">> >>,
      << <<"M", "V">>, <<"m", "o", "v", "i", "t", "e", "c", "h">> >>,
      << <<"R", "Y">>, <<"r", "e", "y", "e", "n", "v", "a", "s">> >>,
      << <<"/">>, <<>> >>,
      << <<"A", "C">>, <<"a", "n", "g", "e", "l", " ", "c", "a", "m", "a", "c", "h", "o">> >>,
      << <<"V", "R">>, <<"v", "a", "c", "a", "c", "i", "o", "n", "e", "s">> >>,
      << <<"A", "R">>, <<"a", "r", "a", "n", "c", "o">> >>,
      << <<"B", "F">>, <<"b", "i", "d", "a", "f", "a", "r", "m", "a">> >>,
      << <<"B", "F", "p">>, <<"b", "i", "d", "a", "f", "a", "r", "m", "a", " ", "p", "u", "e", "r", "t", "o", " ", "r", "e", "a", "l">> >>,
      << <<"B", "F", "h">>, <<"b", "i", "d", "a", "f", "a", "r", "m", "a", " ", "h", "u", "e", "l", "v", "a">> >>,
      << <<"B", "F", "m">>, <<"b", "i", "d", "a", "f", "a", "r", "m", "a", " ", "m", "a", "l", "a", "g", "a">> >>,
      << <<"B", "F", "c", "m">>, <<"b", "i", "d", "a", "f", "a", "r", "m", "a", " ", "c", "a", "m", "a", "s">> >>,
      << <<"B", "O", "R">>, <<"b", "o", "r", "d", "a", "s">> >>,
      << <<"H", "I", "S", "P">>, <<"h", "i", "s", "p", "a", "c", "o", "l", "d">> >>,
      << <<"A", "F">>, <<"a", "l", "f", "r", "a", "n">> >>,
      << <<"A", "L">>, <<"a", "l", "l", "i", "a", "n", "c", "e">> >>,
      << <<"L", "A", "M", "t">>, <<"l", "a", " ", "m", "u", "r", "a", "l", "l", "a">> >>,
      << <<"L", "A", "M", "m">>, <<"l", "a", " ", "m", "u", "r", "a", "l", "l", "a">> >>,
      << <<"F", "O", "R">>, <<"f", "o", "r", "m", "a", "c", "i", "o", "n">> >>,
      << <<"L", "Y", "S">>, <<"l", "y", "s", "u", "r">> >>,
      << <<"H", "A">>, <<"h", "a", "r", "i", "b", "e", "r", "i", "c", "a">> >>,
      << <<"S", "T">>, <<"s", "t", "r", "u", "g", "a", "l">> >>,
      << <<"C", "E", "U">>, <<"c", "e", "u">> >>,
      << <<"M", "C">>, <<"m", "e", "c", "a", "l", "u", "x">> >>,
      << <<"S", "A", "I">>, <<"s", "a", "i", "c", "a">> >>,
      << <<"V", "E", "O", "t">>, <<"v", "e", "o", "l", "i", "a">> >>,
      << <<"B", "P">>, <<"b", "a", "j", "a", " ", "p", "a", "t", "e", "r", "n", "i", "d", "a", "d">> >>,
      << <<"P", "E", "R">>, <<"p", "e", "r", "s", "a", "n", " ", "f", "i", "j", "o", "s">> >>,
      << <<"P", "E", "R", "t">>, <<"p", "e", "r", "s", "a", "n", " ", "t", "u", "r", "n", "o", "s">> >>,
      << <<"P", "E", "R", "m">>, <<"p", "e", "r", "s", "a", "n", " ", "t", "u", "r", "n", "o", "s">> >>,
      << <<"P", "E", "R", "n">>, <<"p", "e", "r", "s", "a", "n", " ", "t", "u", "r", "n", "o", "s">> >>,
      << <<"F", "O", "R", "M">>, <<"f", "o", "r", "m", "a", "c", "i", "o", "n">> >>,
      << <<"D">>, <<"l", "i", "b", "r", "e">> >>,
      << <<"C", "C", "s">>, <<"c", "o", "c", "a", "c", "o", "l", "a", " ", "s", "e", "v", "i", "l", "l", "a">> >>,
      << <<"B", "E">>, <<"b", "a", "j", "a", " ", "e", "n", "f", "e", "r", "m", "e", "d", "a", "d">> >>,
      << <<"B", "E", " ", "?">>, <<"b", "a", "j", "a", " ", "e", "n", "f", "e", "r", "m", "e", "d", "a", "d", " ", "p", "o", "r", " ", "c", "o", "n", "f", "i", "r", "m", "a", "r">> >>,
      << <<"C", "C", "s", "m">>, <<"c", "o", "c", "a", "c", "o", "l", "a", " ", "s", "e", "v", "i", "l", "l", "a">> >>,
      << <<"P">>, <<"r", "e", "f", "r", "e", "s", "c", "o", " ", "i", "b", "e", "r", "i", "a">> >>,
      << <<"Y", "B">>, <<"y", "b", "a", "r", "r", "a">> >>,
      << <<"P", "R", "M">>, <<"p", "r", "i", "m", "o", "r">> >>,
      << <<"L", "D">>, <<"l", "i", "d", "l">> >>,
      << <<"O", "N", "E", "T">>, <<"o", "n", "e", "t">> >>,
      << <<"V", "E", "I">>, <<"v", "e", "i", "m", "a", "n", "c", "h", "a">> >>,
      << <<"T", "H">>, <<"h", "e", "a", "l", "t", "h", "c", "a", "r", "e">> >>,
      << <<"A", "P">>, <<"a", "s", "u", "n", "t", "o", "s", " ", "p", "r", "o", "p", "i", "o", "s">> >>,
      << <<"F", "5">>, <<"f", "a", "c", "t", "o", "r", " ", "5">> >>,
      << <<"M", "E", "D">>, <<"r", "e", "c", "o", "n", "o", "c", "i", "m", "i", "e", "n", "t", "o", " ", "m", "e", "d", "i", "c", "o">> >>,
      << <<"S", "M", "m">>, <<"s", "a", "n", "m", "i", "g", "u", "e", "l">> >>,
      << <<"N", "A", "V", "E">>, <<"n", "a", "v", "e">> >>,
      << <<"L", "1", "0", "E", "l", "e">>, <<"c", "o", "c", "a", "c", "o", "l", "a", " ", "r", "e", "p", "a", "r", "a", "c", "i", "o", "n">> >>,
      << <<"I", "N">>, <<"i", "n", "a", "l", "c", "o", "a">> >>,
      << <<"I", "T", "P">>, <<"i", "t", "p">> >>,
      << <<"C", "P">>, <<"c", "e", "m", "e", "n", "t", "o", "s", " ", "p", "o", "r", "t", "l", "a", "n", "d">> >>,
      << <<"M", "1">>, <<"p", "e", "r", "s", "a", "n", " ", "t", "u", "r", "n", "o", "s">> >>,
      << <<"T", "1">>, <<"p", "e", "r", "s", "a", "n", " ", "t", "u", "r", "n", "o", "s">> >>,
      << <<"N", "1">>, <<"p", "e", "r", "s", "a", "n", " ", "t", "u", "r", "n", "o", "s">> >>,
      << <<"M", "2">>, <<"p", "e", "r", "s", "a", "n", " ", "t", "u", "r", "n", "o", "s">> >>,
      << <<"T", "2">>, <<"p", "e", "r", "s", "a", "n", " ", "t", "u", "r", "n", "o", "s">> >>,
      << <<"N", "2">>, <<"p", "e", "r", "s", "a", "n", " ", "t", "u", "r", "n", "o", "s">> >>,
      << <<"M", "3">>, <<"p", "e", "r", "s", "a", "n", " ", "t", "u", "r", "n", "o", "s">> >>,
      << <<"T", "3">>, <<"p", "e", "r", "s", "a", "n", " ", "t", "u", "r", "n", "o", "s">> >>,
      << <<"N", "3">>, <<"p", "e", "r", "s", "a", "n", " ", "t", "u", "r", "n", "o", "s">> >>,
      << <<"M", "4">>, <<"p", "e", "r", "s", "a", "n", " ", "t", "u", "r", "n", "o", "s">> >>,
      << <<"T", "4">>, <<"p", "e", "r", "s", "a", "n", " ", "t", "u", "r", "n", "o", "s">> >>,
      << <<"N", "4">>, <<"p", "e", "r", "s", "a", "n", " ", "t", "u", "r", "n", "o", "s">> >>,
      << <<"I", "T", "V">>, <<"i", "t", "v">> >> }

SIGLA_COMPANY ==
    { << <<"P", "E", "R">>, <<"P", "e", "r", "s", "a", "n", " ", "f", "i", "j", "o", "s">> >>,
      << <<"P", "E", "R", "t">>, <<"P", "e", "r", "s", "a", "n", " ", "t", "u", "r", "n", "o", "s">> >>,
      << <<"P", "E", "R", "m">>, <<"P", "e", "r", "s", "a", "n", " ", "t", "u", "r", "n", "o", "s">> >>,
      << <<"P", "E", "R", "n">>, <<"P", "e", "r", "s", "a", "n", " ", "t", "u", "r", "n", "o", "s">> >> }

\* dict.get(key): the entry of a table, None when the key is absent.
HasKey(table, key) == \E e \in table : e[1] = key
Lookup(table, key) == (CHOOSE e \in table : e[1] = key)[2]

\* The literal "LIBRE", the label of a free day.
LIBRE == << "L", "I", "B", "R", "E" >>

-----------------------------------------------------------------------------
(* CodeResolver: describe_sigla and get_company_for_code.                   *)

\* re.match(r"^L(\d+)", code)
MatchL(c) == Len(c) >= 2 /\ c[1] = "L" /\ c[2] \in Digit

\* re.match(r"^[MTN]\d+$", code)
MatchTurno(c) == Len(c) >= 2 /\ c[1] \in {"M", "T", "N"} /\ str_isdigit(Tail(c))

\* describe_sigla with the upper split of the L rule off by one (num > 50).
describe_sigla_split(raw) ==
    IF Len(raw) = 0 THEN << >>
    ELSE LET c == str_strip(raw)
         IN  IF HasKey(SIGLA_DESCRIPTIONS, c) THEN Lookup(SIGLA_DESCRIPTIONS, c)
             ELSE IF MatchL(c) /\ int_of(DigitPrefix(Tail(c))) < 50
                  THEN << "c","o","c","a","c","o","l","a"," ","r","e","p","a","r","a","c","i","o","n" >>
             ELSE IF MatchL(c) /\ int_of(DigitPrefix(Tail(c))) > 50
                  THEN << "r","e","f","r","e","s","c","o"," ","r","e","p","a","r","a","c","i","o","n" >>
             ELSE IF MatchTurno(c)
                  THEN << "p","e","r","s","a","n"," ","t","u","r","n","o","s" >>
             ELSE c

describe_sigla(raw) ==
    IF Len(raw) = 0 THEN << >>
    ELSE LET c == str_strip(raw)
         IN  IF HasKey(SIGLA_DESCRIPTIONS, c) THEN Lookup(SIGLA_DESCRIPTIONS, c)
             ELSE IF MatchL(c) /\ int_of(DigitPrefix(Tail(c))) < 50
                  THEN << "c","o","c","a","c","o","l","a"," ","r","e","p","a","r","a","c","i","o","n" >>
             ELSE IF MatchL(c) /\ int_of(DigitPrefix(Tail(c))) > 51
                  THEN << "r","e","f","r","e","s","c","o"," ","r","e","p","a","r","a","c","i","o","n" >>
             ELSE IF MatchTurno(c)
                  THEN << "p","e","r","s","a","n"," ","t","u","r","n","o","s" >>
             ELSE c

\* get_company_for_code with the lower split of the L rule off by one (num < 51).
get_company_for_code_split(raw) ==
    IF Len(raw) = 0 THEN << >>
    ELSE LET c == str_strip(raw)
         IN  IF HasKey(SIGLA_COMPANY, c) /\ Len(Lookup(SIGLA_COMPANY, c)) > 0
                  THEN Lookup(SIGLA_COMPANY, c)
             ELSE IF MatchTurno(c)
                  THEN << "P","e","r","s","a","n"," ","t","u","r","n","o","s" >>
             ELSE IF MatchL(c) /\ int_of(DigitPrefix(Tail(c))) < 51
                  THEN << "C","o","c","a","c","o","l","a"," ","r","e","p","a","r","a","c","i","o","n" >>
             ELSE IF MatchL(c) /\ int_of(DigitPrefix(Tail(c))) > 51
                  THEN << "R","e","f","r","e","s","c","o"," ","r","e","p","a","r","a","c","i","o","n" >>
             ELSE IF HasKey(SIGLA_DESCRIPTIONS, c) /\ Len(Lookup(SIGLA_DESCRIPTIONS, c)) > 0
                  THEN str_capitalize(Lookup(SIGLA_DESCRIPTIONS, c))
             ELSE c

get_company_for_code(raw) ==
    IF Len(raw) = 0 THEN << >>
    ELSE LET c == str_strip(raw)
         IN  IF HasKey(SIGLA_COMPANY, c) /\ Len(Lookup(SIGLA_COMPANY, c)) > 0
                  THEN Lookup(SIGLA_COMPANY, c)
             ELSE IF MatchTurno(c)
                  THEN << "P","e","r","s","a","n"," ","t","u","r","n","o","s" >>
             ELSE IF MatchL(c) /\ int_of(DigitPrefix(Tail(c))) < 50
                  THEN << "C","o","c","a","c","o","l","a"," ","r","e","p","a","r","a","c","i","o","n" >>
             ELSE IF MatchL(c) /\ int_of(DigitPrefix(Tail(c))) > 51
                  THEN << "R","e","f","r","e","s","c","o"," ","r","e","p","a","r","a","c","i","o","n" >>
             ELSE IF HasKey(SIGLA_DESCRIPTIONS, c) /\ Len(Lookup(SIGLA_DESCRIPTIONS, c)) > 0
                  THEN str_capitalize(Lookup(SIGLA_DESCRIPTIONS, c))
             ELSE c

-----------------------------------------------------------------------------
(* SummaryAggregator: compress_days, build_resumen_lines and                *)
(* get_main_company_from_daily_info.                                        *)

\* sorted(S) of a set of integers.
RECURSIVE SortedSeq(_)
SortedSeq(S) ==
    IF S = {} THEN << >>
    ELSE LET m == CHOOSE x \in S : \A y \in S : x <= y
         IN  << m >> \o SortedSeq(S \ {m})

\* compress_days without the set(): duplicates of an index are kept.
compress_days_dups(ix) ==
    LET RECURSIVE Insert(_, _)
        Insert(x, s) == IF Len(s) = 0 \/ x <= s[1] THEN << x >> \o s
                        ELSE << s[1] >> \o Insert(x, Tail(s))
        RECURSIVE Sorted(_)
        Sorted(s) == IF Len(s) = 0 THEN << >> ELSE Insert(s[1], Sorted(Tail(s)))
        unique == Sorted(ix)
    IN  IF Len(unique) = 0 THEN << >>
        ELSE LET min_i == unique[1]
                 max_i == unique[Len(unique)]
             IN  IF Len(unique) = max_i - min_i + 1 /\ Len(unique) > 1
                 THEN << WEEKDAY_LETTER[min_i], " ", "-", " ", WEEKDAY_LETTER[max_i] >>
                 ELSE IF Len(unique) = 1 THEN << WEEKDAY_LETTER[unique[1]] >>
                 ELSE str_join(<< "," >>,
                               [i \in 1..Len(unique) |-> << WEEKDAY_LETTER[unique[i]] >>])

compress_days(ix) ==
    LET unique == SortedSeq({ix[i] : i \in 1..Len(ix)})
    IN  IF Len(unique) = 0 THEN << >>
        ELSE LET min_i == unique[1]
                 max_i == unique[Len(unique)]
             IN  IF Len(unique) = max_i - min_i + 1 /\ Len(unique) > 1
                 THEN << WEEKDAY_LETTER[min_i], " ", "-", " ", WEEKDAY_LETTER[max_i] >>
                 ELSE IF Len(unique) = 1 THEN << WEEKDAY_LETTER[unique[1]] >>
                 ELSE str_join(<< "," >>,
                               [i \in 1..Len(unique) |-> << WEEKDAY_LETTER[unique[i]] >>])

\* One entry of daily_info, (d, label, desc, is_fest), with the date d kept as
\* its weekday d.weekday() (Monday = 0 .. Sunday = 6).
DailyInfo(wd, label, is_fest) ==
    [wd |-> wd, label |-> label,
     desc |-> IF label = LIBRE THEN LIBRE ELSE describe_sigla(label),
     is_fest |-> is_fest]

\* The body of the loop of build_resumen_lines over daily_info: company_days
\* is kept as the sequence of its entries in insertion order.
GroupDay(company_days, rec) ==
    LET company_display ==
            IF rec.label = LIBRE THEN LIBRE ELSE get_company_for_code(rec.label)
        company_key ==
            IF rec.label = LIBRE THEN LIBRE ELSE str_upper(company_display)
        codes == IF rec.label # LIBRE THEN {rec.label} ELSE {}
        found == {i \in 1..Len(company_days) : company_days[i].key = company_key}
    IN  IF found = {}
        THEN Append(company_days,
                    [key |-> company_key, company_display |-> company_display,
                     days |-> << << rec.wd, rec.label >> >>, codes |-> codes])
        ELSE LET i == CHOOSE j \in found : TRUE
             IN  [company_days EXCEPT ![i].days = Append(@, << rec.wd, rec.label >>),
                                      ![i].codes = @ \cup codes]

RECURSIVE GroupDays(_, _)
GroupDays(company_days, info) ==
    IF Len(info) = 0 THEN company_days
    ELSE GroupDays(GroupDay(company_days, info[1]), Tail(info))

\* min(wd for wd, _ in e["days"])
MinDay(e) ==
    CHOOSE w \in {e.days[i][1] : i \in 1..Len(e.days)} :
        \A i \in 1..Len(e.days) : w <= e.days[i][1]

\* sorted(company_days.values(), key=...): a stable sort by the first weekday.
OrderedGroups(company_days) ==
    LET n == Len(company_days)
        Before(i, j) ==
            \/ MinDay(company_days[i]) < MinDay(company_days[j])
            \/ MinDay(company_days[i]) = MinDay(company_days[j]) /\ i < j
        Rank(i) == Cardinality({j \in 1..n : Before(j, i)})
    IN  [r \in 1..n |-> company_days[CHOOSE i \in 1..n : Rank(i) = r - 1]]

\* The rendering of one group: the second loop of build_resumen_lines.
RenderGroup(group) ==
    LET days_text == compress_days([i \in 1..Len(group.days) |-> group.days[i][1]])
        label_text ==
            IF group.company_display = LIBRE THEN LIBRE
            ELSE IF Cardinality(group.codes) = 1
                 THEN (CHOOSE c \in group.codes : TRUE) \o << " ", "(" >>
                          \o group.company_display \o << ")" >>
            ELSE << "(" >> \o group.company_display \o << ")" >>
    IN  days_text \o << " ", ":", " " >> \o label_text

\* build_resumen_lines that renders every group, the free one included, as a
\* code line.
build_resumen_lines_nofree(info) ==
    IF Len(info) = 0 THEN << >>
    ELSE LET ordered_groups == OrderedGroups(GroupDays(<< >>, info))
         IN  [g \in 1..Len(ordered_groups) |->
                 RenderGroup([ordered_groups[g] EXCEPT !.company_display = << >>])]

build_resumen_lines(info) ==
    IF Len(info) = 0 THEN << >>
    ELSE LET ordered_groups == OrderedGroups(GroupDays(<< >>, info))
         IN  [g \in 1..Len(ordered_groups) |-> RenderGroup(ordered_groups[g])]

\* The labels get_main_company_from_daily_info counts: not "LIBRE", not empty.
Companies(info) ==
    LET kept == {i \in 1..Len(info) : ~(info[i].label = LIBRE \/ Len(info[i].label) = 0)}
    IN  [i \in kept |-> get_company_for_code(info[i].label)]

\* get_main_company_from_daily_info with the tie between equal counts broken
\* by the first day seen instead of by name.
get_main_company_from_daily_info_first(info) ==
    LET companies == Companies(info)
        names == {companies[i] : i \in DOMAIN companies}
        counts == [c \in names |-> Cardinality({i \in DOMAIN companies : companies[i] = c})]
        First(c) == CHOOSE i \in DOMAIN companies :
                        companies[i] = c /\ \A j \in DOMAIN companies : companies[j] = c => i <= j
    IN  IF DOMAIN companies = {} THEN LIBRE
        ELSE CHOOSE c \in names :
                 \A o \in names \ {c} :
                     \/ counts[c] > counts[o]
                     \/ counts[c] = counts[o] /\ First(c) < First(o)

get_main_company_from_daily_info(info) ==
    LET companies == Companies(info)
        names == {companies[i] : i \in DOMAIN companies}
        counts == [c \in names |-> Cardinality({i \in DOMAIN companies : companies[i] = c})]
    IN  IF DOMAIN companies = {} THEN LIBRE
        ELSE \* sorted(counts.items(), key=lambda x: (-x[1], x[0]))[0][0]
             CHOOSE c \in names :
                 \A o \in names \ {c} :
                     \/ counts[c] > counts[o]
                     \/ counts[c] = counts[o] /\ str_less(c, o)

-----------------------------------------------------------------------------
(* NameClassifier and GridLocator: normalize_name, is_person_name,          *)
(* find_day_row, load_month_sheet, get_assignment.                          *)
(*                                                                          *)
(* The DataFrame df is a function from the row indices 0..len(df)-1 to rows, *)
(* a row a function from the column indices 0..width-1 to cell strings.     *)

\* Optional[int]: None, as find_day_row and dict.get return it (indices are >= 0).
None == -1

\* re.sub(r"\s+", " ", s): every run of whitespace replaced by one space.
RECURSIVE CollapseSpaces(_)
CollapseSpaces(s) ==
    IF Len(s) = 0 THEN << >>
    ELSE IF s[1] \in Whitespace
         THEN IF Len(s) >= 2 /\ s[2] \in Whitespace
              THEN CollapseSpaces(Tail(s))
              ELSE << " " >> \o CollapseSpaces(Tail(s))
    ELSE << s[1] >> \o CollapseSpaces(Tail(s))

normalize_name(name) == str_upper(CollapseSpaces(str_strip(name)))

\* [p for p in re.split(r"\s+", n) if p]: the maximal runs of non-whitespace,
\* each given by the positions of its first and last character.
Parts(n) ==
    {t \in (1..Len(n)) \X (1..Len(n)) :
        /\ t[1] <= t[2]
        /\ \A i \in t[1]..t[2] : n[i] \notin Whitespace
        /\ t[1] = 1 \/ n[t[1] - 1] \in Whitespace
        /\ t[2] = Len(n) \/ n[t[2] + 1] \in Whitespace}

\* The character class [A-Za-zÁÉÍÓÚÜÑáéíóúüñ].
NameLetter(c) ==
    IsAsciiUpper(c) \/ IsAsciiLower(c) \/ c \in DOMAIN AccentedCodePoint

is_person_name(name) ==
    LET n == str_strip(name)
        parts == Parts(n)
        alpha_tokens ==
            Cardinality({t \in parts : \E i \in t[1]..t[2] : NameLetter(n[i])})
    IN  IF Len(n) = 0 THEN FALSE
        ELSE IF \E i \in 1..Len(n) : n[i] \in Digit THEN FALSE
        ELSE IF Cardinality(parts) < 2 THEN FALSE
        ELSE alpha_tokens >= 2

\* len(df) and the number of cells of a row.
len(f) == Cardinality(DOMAIN f)

\* count_numeric of find_day_row for one row: the all-digit cells of row[2:].
count_numeric(row) ==
    Cardinality({c \in DOMAIN row : c >= 2 /\ str_isdigit(str_strip(row[c]))})

\* The loop of find_day_row from row idx on.
RECURSIVE find_day_row_from(_, _)
find_day_row_from(g, idx) ==
    IF idx >= (IF len(g) < 10 THEN len(g) ELSE 10) THEN None
    ELSE IF count_numeric(g[idx]) >= 5 THEN idx
    ELSE find_day_row_from(g, idx + 1)

\* find_day_row that scans every row of the sheet, not only the first 10.
find_day_row_all(g) ==
    LET q == {idx \in DOMAIN g : count_numeric(g[idx]) >= 5}
    IN  IF q = {} THEN None ELSE CHOOSE idx \in q : \A o \in q : idx <= o

find_day_row(g) == find_day_row_from(g, 0)

\* The loop of load_month_sheet over the columns of the header row, from
\* column col_idx on: a later column overwrites the entry of the same day.
RECURSIVE day_col_loop(_, _, _)
day_col_loop(header_row, col_idx, day_col_map) ==
    IF col_idx >= len(header_row) THEN day_col_map
    ELSE LET cell_str == str_strip(header_row[col_idx])
         IN  IF str_isdigit(cell_str)
             THEN day_col_loop(header_row, col_idx + 1,
                               (int_of(cell_str) :> col_idx) @@ day_col_map)
             ELSE day_col_loop(header_row, col_idx + 1, day_col_map)

\* tech_start and last_row_to_read of load_month_sheet.
tech_start(header_idx) == header_idx + 2

\* last_row_to_read without the cap of 82 rows.
last_row_to_read_uncapped(g) == len(g)

last_row_to_read(g) == IF len(g) < 82 THEN len(g) ELSE 82

\* The loop of load_month_sheet over the rows, from row row_idx on; acc holds
\* tech_row_map and tech_names.
RECURSIVE tech_loop(_, _, _)
tech_loop(g, row_idx, acc) ==
    IF row_idx >= last_row_to_read(g) THEN acc
    ELSE LET raw_name == str_strip(g[row_idx][1])
         IN  IF Len(raw_name) = 0 THEN tech_loop(g, row_idx + 1, acc)
             ELSE IF ~is_person_name(raw_name) THEN tech_loop(g, row_idx + 1, acc)
             ELSE tech_loop(g, row_idx + 1,
                     [tech_names   |-> Append(acc.tech_names, raw_name),
                      tech_row_map |-> (normalize_name(raw_name) :> row_idx)
                                           @@ acc.tech_row_map])

\* The value of month_sheet before load_month_sheet has returned, and after it
\* has raised ValueError (error = TRUE: no MonthSheet is produced).
NoSheet(raised) ==
    [error |-> raised, day_col_map |-> << >>, tech_row_map |-> << >>, tech_names |-> << >>]

\* load_month_sheet from the DataFrame on (src/app.py:204-233).
load_month_sheet(g) ==
    LET header_idx == find_day_row(g)
    IN  IF header_idx = None THEN NoSheet(TRUE)
        ELSE LET people == tech_loop(g, tech_start(header_idx),
                                     [tech_names |-> << >>, tech_row_map |-> << >>])
             IN  [error        |-> FALSE,
                  day_col_map  |-> day_col_loop(g[header_idx], 2, << >>),
                  tech_row_map |-> people.tech_row_map,
                  tech_names   |-> people.tech_names]

\* get_assignment that returns the trimmed cell also when it is "D".
get_assignment_keep_d(sheet, g, name, d) ==
    IF normalize_name(name) \notin DOMAIN sheet.tech_row_map \/ d \notin DOMAIN sheet.day_col_map
    THEN << >>
    ELSE str_strip(g[sheet.tech_row_map[normalize_name(name)]][sheet.day_col_map[d]])

\* get_assignment(month_sheet, tech_name, day); g is month_sheet.df.
get_assignment(sheet, g, name, d) ==
    IF normalize_name(name) \notin DOMAIN sheet.tech_row_map \/ d \notin DOMAIN sheet.day_col_map
    THEN << >>
    ELSE LET tech_row == sheet.tech_row_map[normalize_name(name)]
             col_idx  == sheet.day_col_map[d]
             value    == str_strip(g[tech_row][col_idx])
         IN  IF value = << "D" >> THEN << >> ELSE value

-----------------------------------------------------------------------------
(* The weekly pipeline of main: for one technician, the loop over the dates *)
(* of the week, then build_resumen_lines and                                *)
(* get_main_company_from_daily_info.                                        *)

\* week_dates: the dates start_date + i days, i < n, each kept as its day of
\* the month, its weekday, and whether get_holidays_for_dates holds it.
WeekDates(start_day, start_wd, n, fest) ==
    [i \in 1..n |-> [day     |-> start_day + i - 1,
                     wd      |-> (start_wd + i - 1) % 7,
                     is_fest |-> i \in fest]]

\* The entry (d, label, desc, is_fest) the loop builds from the assignment of
\* date d.
WeekEntry(d, asg) ==
    [wd      |-> d.wd,
     label   |-> IF Len(asg) = 0 THEN LIBRE ELSE asg,
     desc    |-> IF Len(asg) = 0 THEN LIBRE ELSE describe_sigla(asg),
     is_fest |-> d.is_fest]

\* The test of the loop that drops every Saturday, Sunday and holiday from
\* the included set, whatever its label.
skip_day_any_label(entry) == entry.wd \in {5, 6} \/ entry.is_fest

\* The test of the loop that ends in continue: the day is kept out of
\* daily_info_resumen.
skip_day(entry) ==
    (entry.wd \in {5, 6} \/ entry.is_fest) /\ entry.label = LIBRE

\* The loop over week_dates for the technician tech, from date number i on;
\* acc holds daily_info_all and daily_info_resumen.
RECURSIVE week_loop(_, _, _, _, _, _)
week_loop(sheet, g, tech, dates, i, acc) ==
    IF i > Len(dates) THEN acc
    ELSE LET entry == WeekEntry(dates[i], get_assignment(sheet, g, tech, dates[i].day))
         IN  week_loop(sheet, g, tech, dates, i + 1,
                 [daily_info_all     |-> Append(acc.daily_info_all, entry),
                  daily_info_resumen |-> IF skip_day(entry) THEN acc.daily_info_resumen
                                         ELSE Append(acc.daily_info_resumen, entry)])

\* The groups build_resumen_lines renders, in the order of its lines.
resumen_groups(info) ==
    IF Len(info) = 0 THEN << >> ELSE OrderedGroups(GroupDays(<< >>, info))

-----------------------------------------------------------------------------
(* Bounded inputs.                                                          *)

\* All sequences over S of length at most n.
SeqsUpTo(S, n) == UNION {[1..k -> S] : k \in 0..n}

\* Longest code enumerated character by character.
MaxCodeLen == 4

\* Characters the enumerated codes are made of: the letters of the two
\* patterns, digits on both sides of the 50/51 split, a lower-case letter and
\* whitespace.
CodeChars == {"L", "M", "0", "1", "2", "5", "x", " "}

\* Codes of the schedule that are longer than MaxCodeLen or use other characters.
SampleCodes ==
    { << "L", "4", "0" >>, << "L", "6", "0" >>, << "L", "4", "9", "b" >>,
      << "L", "1", "0", "E", "l", "e" >>, << "L", "1", "0", "0", "0" >>,
      << "T", "1", "2" >>, << "N", "7" >>, << "N", "7", "a" >>,
      << "A", "B", "C" >>, << "a", "B", "c" >>, << "l", "i", "b", "r", "e" >>,
      << " ", "P", "E", "R", "\t" >>, << "P", "E", "R", "x" >>, << "D", " " >>,
      LIBRE }

\* The codes: every string of at most n characters of CodeChars, the keys of
\* the description table and the sample codes.
Codes(n) ==
    SeqsUpTo(CodeChars, n) \cup {e[1] : e \in SIGLA_DESCRIPTIONS} \cup SampleCodes

\* Longest list of weekday indices enumerated index by index.
MaxIndices == 4

\* Arguments of compress_days: every list of at most n indices, with
\* repetitions and in any order, and every set of weekdays in ascending and in
\* descending order.
IndexLists(n) ==
    SeqsUpTo(0..6, n)
        \cup {SortedSeq(S) : S \in SUBSET (0..6)}
        \cup {[i \in 1..Cardinality(S) |-> SortedSeq(S)[Cardinality(S) + 1 - i]] :
                 S \in SUBSET (0..6)}

\* Most days of an included set (the days build_resumen_lines is given).
MaxDays == 3

\* Labels of the days of an included set: free, a cell holding the text
\* "libre", and two codes of one organization.
ResumenLabels ==
    { LIBRE, << "l", "i", "b", "r", "e" >>, << "M", "1" >>, << "P", "E", "R", "t" >> }

\* Included sets: at most n days of distinct weekdays, in any order.
IncludedSets(n) ==
    {info \in UNION {[1..k -> [wd : 0..6, label : ResumenLabels]] : k \in 0..n} :
        \A i, j \in 1..Len(info) : i # j => info[i].wd # info[j].wd}

\* Most days of a full set (the days get_main_company_from_daily_info is given).
MaxFullDays == 5

\* Labels of the days of a full set: empty, free, and codes of three
\* organizations ("M1" and "PERt" are both of "Persan turnos").
FullLabels ==
    { << >>, LIBRE, << "A", "R" >>, << "B", "F" >>, << "M", "1" >>, << "P", "E", "R", "t" >> }

\* Full sets: the labels of at most n consecutive days.
FullSets(n) == UNION {[1..k -> FullLabels] : k \in 0..n}

\* A row / a DataFrame given as a tuple, with the source's indices from 0.
FromZero(t) == [i \in 0..(Len(t) - 1) |-> t[i + 1]]

\* A row of w empty cells, and w empty cells with the name cell (column 1) set.
BlankRow(w) == [c \in 0..(w - 1) |-> << >>]
NameRow(w, name) == [c \in 0..(w - 1) |-> IF c = 1 THEN name ELSE << >>]

\* A header row of days 1..5 in columns 2..6, and a row that is no header:
\* it has six all-digit cells, but only four of them from column 2 on.
StrongRow == FromZero(<< << >>, << >>, << "1" >>, << "2" >>, << "3" >>, << "4" >>, << "5" >> >>)
WeakRow   == FromZero(<< << "1" >>, << "2" >>, << "3" >>, << "4" >>, << "5" >>, << "6" >>, << >> >>)

\* Most rows of the sheets that probe the scan window of find_day_row, and
\* most rows of them that are not blank.
MaxHeaderRows == 12
MaxMarked == 2

\* Sheets of at most max_rows rows, at most max_marked of them not blank.
HeaderGrids(max_rows, max_marked) ==
    UNION { UNION { { [r \in 0..(n - 1) |->
                         IF r \in marked
                         THEN (IF kind[r] = "strong" THEN StrongRow ELSE WeakRow)
                         ELSE BlankRow(7)] :
                      kind \in [marked -> {"strong", "weak"}] } :
                    marked \in {m \in SUBSET (0..(n - 1)) : Cardinality(m) <= max_marked} } :
            n \in 0..max_rows }

\* Cells of a header row: empty, days, a repeated day, all-digit cells that are
\* no day of a month, a day with whitespace around it, digits with a letter.
DayCells ==
    { << >>, << "4" >>, << "1" >>, << "0" >>, << "3", "2" >>, << "2", "0", "2", "5" >>,
      << " ", "7", "\t" >>, << "1", "a" >> }

\* Most cells of a header row after its first five.
MaxDayCells == 3

\* One-row sheets: columns 0 and 1 (an all-digit cell or none), the days 1, 2, 3
\* and then up to max_cells further cells.
DayGrids(max_cells) ==
    UNION { { FromZero(<< FromZero(<< first, << >>, << "1" >>, << "2" >>, << "3" >> >> \o rest) >>) :
                first \in {<< >>, << "9" >>}, rest \in [1..k -> DayCells] } :
            k \in 0..max_cells }

\* Cells of the name column: two names that normalize identically, a third
\* name, and a single word, which is no person name.
NameCells ==
    { << "A", "n", "a", " ", "P", "a", "z" >>,
      << " ", "a", "n", "a", " ", "\t", "p", "a", "z", " " >>,
      << "L", "u", "i", "s", " ", "G", "i", "l" >>,
      << "J", "u", "a", "n" >> }

\* Most rows of a sheet of people, and most rows of it that hold a name cell.
MaxSheetRows == 84
MaxNameRows == 2

\* Sheets of people are short, or reach the last row load_month_sheet reads.
SheetLens(max_rows) == {n \in 1..max_rows : n <= 4 \/ n >= 82}

\* Rows that hold a name cell: before the header row h, around the first row
\* scanned (h + 2), and around the last (81).
ProbeRows(h) == {0, h + 1, h + 2, 81, 82} \ {h}

\* The sheets of n rows with the header in row h and at most max_names name cells.
PeopleGridsOf(n, h, max_names) ==
    UNION { { [r \in 0..(n - 1) |->
                 IF r = h THEN StrongRow
                 ELSE IF r \in named THEN NameRow(7, name[r])
                 ELSE BlankRow(7)] :
              name \in [named -> NameCells] } :
            named \in {m \in SUBSET (ProbeRows(h) \cap 0..(n - 1)) :
                          Cardinality(m) <= max_names} }

PeopleGrids(max_rows, max_names) ==
    UNION { PeopleGridsOf(p[1], p[2], max_names) :
            p \in {q \in SheetLens(max_rows) \X {0, 2} : q[2] < q[1]} }

\* Cells of the schedule: empty, "D" bare and with whitespace, a code bare and
\* with whitespace, a lower-case "d".
CellValues ==
    { << >>, << "D" >>, << " ", "D", " " >>, << "M", "1" >>, << " ", "M", "1", "\t" >>,
      << "d" >> }

\* Sheets read by get_assignment: the header row holds day 2 twice (columns 3
\* and 6), rows 2 and 3 hold a person each.
AssignGrids ==
    { FromZero(<<
          FromZero(<< << >>, << >>, << "1" >>, << "2" >>, << "3" >>, << "4" >>, << "2" >> >>),
          BlankRow(7),
          FromZero(<< << >>, n1, v1, << "A", "R" >>, << >>, << >>, v2 >>),
          FromZero(<< << >>, n2, << "B", "F" >>, << >>, << >>, << >>, << "D" >> >>) >>) :
        n1 \in {<< "A", "n", "a", " ", "P", "a", "z" >>, << "L", "u", "i", "s", " ", "G", "i", "l" >>},
        n2 \in {<< " ", "a", "n", "a", " ", "\t", "p", "a", "z", " " >>, << "J", "u", "a", "n" >>},
        v1 \in CellValues, v2 \in CellValues }

\* Names and days get_assignment is asked for: names of the sheet in other
\* letter case and spacing, a name written without its space, a name that is
\* not in the sheet; days of the header row, a day that is not, and day 0.
QueryNames ==
    { << "A", "n", "a", " ", "P", "a", "z" >>,
      << "\t", "A", "N", "A", " ", " ", " ", "p", "a", "z", " " >>,
      << "a", "n", "a", " ", "p", "a", "z" >>,
      << "A", "n", "a", "P", "a", "z" >>,
      << "l", "u", "i", "s", "\t", "G", "I", "L" >>,
      << "E", "v", "a", " ", "S", "o", "l" >> }

QueryDays == {0, 1, 2, 5}

\* Weeks of main: at most MaxWeekLen consecutive dates.
MaxWeekLen == 3

\* Cells of the week of a technician: "D", the text "LIBRE", a code, and a
\* code whose organization is "libre".
WeekCells ==
    { << "D" >>, LIBRE, << "M", "1" >>, << "l", "i", "b", "r", "e" >> }

\* The holidays of a week of n dates: none, or one of its dates.
WeekHolidays(n) == {{}} \cup {{i} : i \in 1..n}

\* Sheets of a week that starts on day start_day and has n dates: the header
\* row holds the days 1..5 (a later day has no column), row 2 holds the
\* technician whose cells of the week vary, row 3 a second technician.
WeekSheets(start_day, n) ==
    LET week_cols == {c \in 2..6 : c - 1 \in start_day..(start_day + n - 1)}
    IN  { FromZero(<<
              StrongRow,
              BlankRow(7),
              [c \in 0..6 |-> IF c = 1 THEN << "A", "n", "a", " ", "P", "a", "z" >>
                              ELSE IF c \in week_cols THEN cells[c] ELSE << >>],
              FromZero(<< << >>, << "L", "u", "i", "s", " ", "G", "i", "l" >>,
                          << "A", "R" >>, << "M", "1" >>, << "A", "R" >>, << "D" >>, LIBRE >>) >>) :
            cells \in [week_cols -> WeekCells] }

\* A sheet without a header row: load_month_sheet raises on it.
NoHeaderSheet == FromZero(<< WeakRow, BlankRow(7) >>)

-----------------------------------------------------------------------------
(* Values of the variables a specification does not use.                    *)

CodeIdle == code = << >> /\ description = << >> /\ company = << >>
DaysIdle == indices = << >> /\ days_str = << >>
InfoIdle == daily_info = << >> /\ lines = << >> /\ main_company = << >>
GridIdle ==
    /\ df = << >>
    /\ month_sheet = NoSheet(FALSE)
    /\ tech_name = << >>
    /\ day = 0
    /\ day_row_idx = None
    /\ assignment = << >>

WeekIdle ==
    /\ week_dates = << >>
    /\ daily_info_all = << >>
    /\ daily_info_resumen = << >>
    /\ groups = << >>

codeVars == << code, description, company >>
daysVars == << indices, days_str >>
infoVars == << daily_info, lines, main_company >>
gridVars == << df, month_sheet, tech_name, day, day_row_idx, assignment >>
weekVars == << week_dates, daily_info_all, daily_info_resumen, groups >>

-----------------------------------------------------------------------------
(* CodeResolver: one code, then describe_sigla or get_company_for_code.     *)

InitCode ==
    /\ pc = "start"
    /\ code \in Codes(MaxCodeLen)
    /\ description = << >>
    /\ company = << >>
    /\ DaysIdle /\ InfoIdle /\ GridIdle /\ WeekIdle

DescribeSigla ==
    /\ pc = "start"
    /\ description' = describe_sigla(code)
    /\ pc' = "describe_sigla"
    /\ UNCHANGED << code, company, daysVars, infoVars, gridVars, weekVars >>

GetCompanyForCode ==
    /\ pc = "start"
    /\ company' = get_company_for_code(code)
    /\ pc' = "get_company_for_code"
    /\ UNCHANGED << code, description, daysVars, infoVars, gridVars, weekVars >>

NextCode == DescribeSigla \/ GetCompanyForCode

SpecCode == InitCode /\ [][NextCode]_vars

-----------------------------------------------------------------------------
(* compress_days on one list of weekday indices.                            *)

InitDays ==
    /\ pc = "start"
    /\ indices \in IndexLists(MaxIndices)
    /\ days_str = << >>
    /\ CodeIdle /\ InfoIdle /\ GridIdle /\ WeekIdle

CompressDays ==
    /\ pc = "start"
    /\ days_str' = compress_days(indices)
    /\ pc' = "compress_days"
    /\ UNCHANGED << indices, codeVars, infoVars, gridVars, weekVars >>

NextDays == CompressDays

SpecDays == InitDays /\ [][NextDays]_vars

-----------------------------------------------------------------------------
(* build_resumen_lines on one included set.                                 *)

InitResumen ==
    /\ pc = "start"
    /\ \E info \in IncludedSets(MaxDays) :
          daily_info = [i \in 1..Len(info) |-> DailyInfo(info[i].wd, info[i].label, FALSE)]
    /\ lines = << >>
    /\ main_company = << >>
    /\ CodeIdle /\ DaysIdle /\ GridIdle /\ WeekIdle

BuildResumenLines ==
    /\ pc = "start"
    /\ lines' = build_resumen_lines(daily_info)
    /\ pc' = "build_resumen_lines"
    /\ UNCHANGED << daily_info, main_company, codeVars, daysVars, gridVars, weekVars >>

NextResumen == BuildResumenLines

SpecResumen == InitResumen /\ [][NextResumen]_vars

-----------------------------------------------------------------------------
(* get_main_company_from_daily_info on one full set.                        *)

InitMain ==
    /\ pc = "start"
    /\ \E labels \in FullSets(MaxFullDays) :
          daily_info = [i \in 1..Len(labels) |-> DailyInfo((i - 1) % 7, labels[i], FALSE)]
    /\ lines = << >>
    /\ main_company = << >>
    /\ CodeIdle /\ DaysIdle /\ GridIdle /\ WeekIdle

GetMainCompany ==
    /\ pc = "start"
    /\ main_company' = get_main_company_from_daily_info(daily_info)
    /\ pc' = "get_main_company_from_daily_info"
    /\ UNCHANGED << daily_info, lines, codeVars, daysVars, gridVars, weekVars >>

NextMain == GetMainCompany

SpecMain == InitMain /\ [][NextMain]_vars

-----------------------------------------------------------------------------
(* load_month_sheet on one sheet, and get_assignment on the MonthSheet.     *)

LoadMonthSheet ==
    /\ pc = "start"
    /\ day_row_idx' = find_day_row(df)
    /\ month_sheet' = load_month_sheet(df)
    /\ pc' = "load_month_sheet"
    /\ UNCHANGED << df, tech_name, day, assignment, codeVars, daysVars, infoVars, weekVars >>

GetAssignment ==
    /\ pc = "load_month_sheet"
    /\ ~month_sheet.error
    /\ \E name \in QueryNames, d \in QueryDays :
          /\ tech_name' = name
          /\ day' = d
          /\ assignment' = get_assignment(month_sheet, df, name, d)
    /\ pc' = "get_assignment"
    /\ UNCHANGED << df, month_sheet, day_row_idx, codeVars, daysVars, infoVars, weekVars >>

InitSheet ==
    /\ pc = "start"
    /\ df \in HeaderGrids(MaxHeaderRows, MaxMarked) \cup DayGrids(MaxDayCells)
                \cup PeopleGrids(MaxSheetRows, MaxNameRows)
    /\ month_sheet = NoSheet(FALSE)
    /\ tech_name = << >>
    /\ day = 0
    /\ day_row_idx = None
    /\ assignment = << >>
    /\ CodeIdle /\ DaysIdle /\ InfoIdle /\ WeekIdle

NextSheet == LoadMonthSheet

SpecSheet == InitSheet /\ [][NextSheet]_vars

InitAssign ==
    /\ pc = "start"
    /\ df \in AssignGrids
    /\ month_sheet = NoSheet(FALSE)
    /\ tech_name = << >>
    /\ day = 0
    /\ day_row_idx = None
    /\ assignment = << >>
    /\ CodeIdle /\ DaysIdle /\ InfoIdle /\ WeekIdle

NextAssign == LoadMonthSheet \/ GetAssignment

SpecAssign == InitAssign /\ [][NextAssign]_vars

-----------------------------------------------------------------------------
(* main: one sheet and one week, load_month_sheet, then the summary of one  *)
(* of the technicians of the sheet.                                         *)

InitWeek ==
    /\ pc = "start"
    /\ \E n \in 1..MaxWeekLen, start_day \in {1, 4}, start_wd \in 0..6 :
          \E fest \in WeekHolidays(n) :
              /\ week_dates = WeekDates(start_day, start_wd, n, fest)
              /\ df \in WeekSheets(start_day, n) \cup {NoHeaderSheet}
    /\ month_sheet = NoSheet(FALSE)
    /\ tech_name = << >>
    /\ day = 0
    /\ day_row_idx = None
    /\ assignment = << >>
    /\ daily_info_all = << >>
    /\ daily_info_resumen = << >>
    /\ groups = << >>
    /\ CodeIdle /\ DaysIdle /\ InfoIdle

\* One turn of the loop of main over selected_tecs (src/app.py:550-573); main
\* has returned before it when load_month_sheet raised.
WeekSummary ==
    /\ pc = "load_month_sheet"
    /\ ~month_sheet.error
    /\ week_dates # << >>
    /\ \E t \in 1..Len(month_sheet.tech_names) :
          LET tech == month_sheet.tech_names[t]
              info == week_loop(month_sheet, df, tech, week_dates, 1,
                                [daily_info_all |-> << >>, daily_info_resumen |-> << >>])
          IN  /\ tech_name' = tech
              /\ daily_info_all' = info.daily_info_all
              /\ daily_info_resumen' = info.daily_info_resumen
              /\ groups' = resumen_groups(info.daily_info_resumen)
              /\ lines' = build_resumen_lines(info.daily_info_resumen)
              /\ main_company' = get_main_company_from_daily_info(info.daily_info_all)
    /\ pc' = "main"
    /\ UNCHANGED << df, month_sheet, day, day_row_idx, assignment, week_dates,
                    daily_info, codeVars, daysVars >>

NextWeek == LoadMonthSheet \/ WeekSummary

SpecWeek == InitWeek /\ [][NextWeek]_vars

-----------------------------------------------------------------------------
(* The whole core: any of the inputs, then any of the operations.           *)

Init ==
    InitCode \/ InitDays \/ InitResumen \/ InitMain \/ InitSheet \/ InitAssign \/ InitWeek

Next ==
    \/ DescribeSigla
    \/ GetCompanyForCode
    \/ CompressDays
    \/ BuildResumenLines
    \/ GetMainCompany
    \/ LoadMonthSheet
    \/ GetAssignment
    \/ WeekSummary

Spec == Init /\ [][Next]_vars

-----------------------------------------------------------------------------
(* Claims on the CodeResolver.                                              *)

\* Value of a digit character, and of a string of digits read left to right.
DigitValue ==
    [c \in Digit |->
        CASE c = "0" -> 0 [] c = "1" -> 1 [] c = "2" -> 2 [] c = "3" -> 3 [] c = "4" -> 4
          [] c = "5" -> 5 [] c = "6" -> 6 [] c = "7" -> 7 [] c = "8" -> 8 [] c = "9" -> 9]

DecimalValue(s) ==
    LET v[i \in 0..Len(s)] == IF i = 0 THEN 0 ELSE 10 * v[i - 1] + DigitValue[s[i]]
    IN  v[Len(s)]

\* "The code starts with L followed by digits": k is the position of the last
\* digit of the run that follows the L.
StartsWithLDigits(c, k) ==
    /\ k \in 2..Len(c)
    /\ c[1] = "L"
    /\ \A i \in 2..k : c[i] \in Digit
    /\ k = Len(c) \/ c[k + 1] \notin Digit

\* "Starts with L followed by digits of value n", with n < 50 / n > 51.
LBelow50(c) == \E k \in 2..Len(c) : StartsWithLDigits(c, k) /\ DecimalValue(SubSeq(c, 2, k)) < 50
LAbove51(c) == \E k \in 2..Len(c) : StartsWithLDigits(c, k) /\ DecimalValue(SubSeq(c, 2, k)) > 51

\* "The whole code is one of M/T/N followed by digits."
WholeTurno(c) ==
    /\ Len(c) >= 2
    /\ c[1] = "M" \/ c[1] = "T" \/ c[1] = "N"
    /\ \A i \in 2..Len(c) : c[i] \in Digit

\* The code without the whitespace around it.
Trimmed(raw) ==
    CHOOSE c \in {SubSeq(raw, i, j) : i \in 1..Len(raw) + 1, j \in 0..Len(raw)} :
        /\ \E i \in 1..Len(raw) + 1, j \in 0..Len(raw) :
              /\ c = SubSeq(raw, i, j)
              /\ \A k \in 1..Len(raw) : (k < i \/ k > j) => raw[k] \in Whitespace
        /\ c = << >> \/ (c[1] \notin Whitespace /\ c[Len(c)] \notin Whitespace)

Capitalized(s) ==
    [i \in 1..Len(s) |-> IF i = 1 THEN char_upper[s[1]] ELSE char_lower[s[i]]]

cocacola_reparacion ==
    << "c","o","c","a","c","o","l","a"," ","r","e","p","a","r","a","c","i","o","n" >>
refresco_reparacion ==
    << "r","e","f","r","e","s","c","o"," ","r","e","p","a","r","a","c","i","o","n" >>
persan_turnos == << "p","e","r","s","a","n"," ","t","u","r","n","o","s" >>

\* The chain of C2, on the trimmed code.
ClaimedDescription(raw) ==
    LET c == Trimmed(raw)
    IN  IF c = << >> THEN << >>
        ELSE IF \E e \in SIGLA_DESCRIPTIONS : e[1] = c
             THEN (CHOOSE e \in SIGLA_DESCRIPTIONS : e[1] = c)[2]
        ELSE IF LBelow50(c) THEN cocacola_reparacion
        ELSE IF LAbove51(c) THEN refresco_reparacion
        ELSE IF WholeTurno(c) THEN persan_turnos
        ELSE c

\* C2: describe_sigla(code) is "" for a trimmed-empty code; else the exact
\* description-table entry when one exists, verbatim even when it is empty;
\* else "cocacola reparacion" / "refresco reparacion" for L followed by digits
\* of value n < 50 / n > 51 (50 and 51 fall through); else "persan turnos" when
\* the whole code is M/T/N followed by digits; else the (trimmed) code
\* unchanged.  describe("L40"), describe("L60") and describe("L50") are as the
\* spec lists them.
C2_DescribeChain ==
    pc = "describe_sigla" =>
        /\ description = ClaimedDescription(code)
        /\ code = << "L", "4", "0" >> => description = cocacola_reparacion
        /\ code = << "L", "6", "0" >> => description = refresco_reparacion
        /\ code = << "L", "5", "0" >> => description = << "L", "5", "0" >>
        /\ code = << "/" >> => description = << >>

\* describe_sigla has run on the boundary code "L51", which passes through.
C2_Witness ==
    /\ pc = "describe_sigla"
    /\ code = << "L", "5", "1" >>
    /\ description = << "L", "5", "1" >>

\* The head of the chain of C1, shared by the claim and its amendment: the
\* override table, the M/T/N rule and the L rule.
CompanyByRule(c) ==
    IF \E e \in SIGLA_COMPANY : e[1] = c
    THEN (CHOOSE e \in SIGLA_COMPANY : e[1] = c)[2]
    ELSE IF WholeTurno(c) THEN Capitalized(persan_turnos)
    ELSE IF LBelow50(c) THEN Capitalized(cocacola_reparacion)
    ELSE Capitalized(refresco_reparacion)

RuleApplies(c) ==
    \/ \E e \in SIGLA_COMPANY : e[1] = c
    \/ WholeTurno(c)
    \/ LBelow50(c)
    \/ LAbove51(c)

\* C1 as stated: the fallback capitalizes describe(code) whenever it is non-empty.
ClaimedCompany(raw) ==
    LET c == Trimmed(raw)
    IN  IF c = << >> THEN << >>
        ELSE IF RuleApplies(c) THEN CompanyByRule(c)
        ELSE IF ClaimedDescription(c) # << >> THEN Capitalized(ClaimedDescription(c))
        ELSE c

\* C1 as amended: the fallback capitalizes the description-table entry of the
\* code when there is a non-empty one.
AmendedCompany(raw) ==
    LET c == Trimmed(raw)
    IN  IF c = << >> THEN << >>
        ELSE IF RuleApplies(c) THEN CompanyByRule(c)
        ELSE IF \E e \in SIGLA_DESCRIPTIONS : e[1] = c /\ e[2] # << >>
             THEN Capitalized((CHOOSE e \in SIGLA_DESCRIPTIONS : e[1] = c)[2])
        ELSE c

\* C1 (original statement): get_company_for_code(code) is the ordered chain
\* empty / override table / M,T,N rule / L rule / describe(code) with only its
\* first character upper-cased / code; so a code in no table and matching no
\* pattern resolves to the code with its first character upper-cased and the
\* rest lower-cased.
C1_Original == pc = "get_company_for_code" => company = ClaimedCompany(code)

\* C1 (amended): get_company_for_code(code) is the ordered chain empty /
\* override table / M,T,N rule / L rule / the non-empty description-TABLE
\* entry of the code with only its first character upper-cased / the
\* (trimmed) code unchanged; a code in no table and matching no pattern
\* resolves to itself, letter case kept.
C1_CompanyChain ==
    pc = "get_company_for_code" =>
        /\ company = AmendedCompany(code)
        /\ code = << "M", "1" >> => company = Capitalized(persan_turnos)
        /\ code = << "P", "E", "R" >> =>
              company = << "P", "e", "r", "s", "a", "n", " ", "f", "i", "j", "o", "s" >>

\* get_company_for_code has run on a code that is in no table and matches no
\* pattern, and has returned it with its upper-case letters kept.
C1_Witness ==
    /\ pc = "get_company_for_code"
    /\ code = << "A", "B", "C" >>
    /\ company = << "A", "B", "C" >>

-----------------------------------------------------------------------------
(* Claims on the SummaryAggregator.                                         *)

\* The letter of a weekday as the claims list them: 0=L, 1=M, 2=X, 3=J, 4=V,
\* 5=S, 6=D.
Letter(wd) ==
    CASE wd = 0 -> "L" [] wd = 1 -> "M" [] wd = 2 -> "X" [] wd = 3 -> "J"
      [] wd = 4 -> "V" [] wd = 5 -> "S" [] wd = 6 -> "D"

\* The k-th smallest element of a set of integers.
Kth(S, k) == CHOOSE x \in S : Cardinality({y \in S : y < x}) = k - 1

\* The rendering of a SET of weekdays that C5 states.
ClaimedDays(S) ==
    LET n  == Cardinality(S)
        lo == Kth(S, 1)
        hi == Kth(S, n)
    IN  IF n = 0 THEN << >>
        ELSE IF n = 1 THEN << Letter(lo) >>
        ELSE IF S = lo..hi THEN << Letter(lo), " ", "-", " ", Letter(hi) >>
        ELSE [i \in 1..(2 * n - 1) |->
                 IF i % 2 = 1 THEN Letter(Kth(S, (i + 1) \div 2)) ELSE ","]

\* C5: compress_days depends only on the set of the indices: "" for the empty
\* set, the letter of a one-element set, "<letter(min)> - <letter(max)>" for a
\* contiguous run of more than one element, and otherwise the letters in
\* ascending order joined by commas.
C5_CompressDays ==
    pc = "compress_days" =>
        days_str = ClaimedDays({indices[i] : i \in 1..Len(indices)})

\* compress_days has run on a list out of order with a repeated index, whose
\* set {0, 2} is not contiguous.
C5_Witness ==
    /\ pc = "compress_days"
    /\ indices = << 2, 0, 2 >>
    /\ days_str = << "L", ",", "X" >>

\* The set of weekdays a line covers: the one whose rendering, followed by
\* " : ", starts the line.
LineDays(line) ==
    CHOOSE S \in SUBSET (0..6) :
        LET head == ClaimedDays(S) \o << " ", ":", " " >>
        IN  Len(line) >= Len(head) /\ SubSeq(line, 1, Len(head)) = head

IsLine(line) ==
    \E S \in SUBSET (0..6) :
        LET head == ClaimedDays(S) \o << " ", ":", " " >>
        IN  Len(line) >= Len(head) /\ SubSeq(line, 1, Len(head)) = head

\* C3 (the claim): every output line that covers the weekday of a free day
\* has the form "<days> : LIBRE", whatever the other days of the included set
\* and their order.
C3_FreeDaysRenderLibre ==
    pc = "build_resumen_lines" =>
        \A i \in 1..Len(daily_info) : \A l \in 1..Len(lines) :
            (daily_info[i].label = LIBRE /\ IsLine(lines[l])
                 /\ daily_info[i].wd \in LineDays(lines[l]))
            => lines[l] = ClaimedDays(LineDays(lines[l])) \o << " ", ":", " " >> \o LIBRE

\* C10 (original statement): for every included set in which every day is
\* free, build_resumen_lines returns exactly one line, compress_days of the
\* weekdays of all included days followed by " : LIBRE".
C10_Original ==
    (pc = "build_resumen_lines" /\ \A i \in 1..Len(daily_info) : daily_info[i].label = LIBRE)
    => lines = << compress_days([i \in 1..Len(daily_info) |-> daily_info[i].wd])
                     \o << " ", ":", " ", "L", "I", "B", "R", "E" >> >>

\* C10 (amended): for every NON-EMPTY included set in which every day is free,
\* build_resumen_lines returns exactly one line, compress_days of the weekdays
\* of all included days followed by " : LIBRE"; for the empty included set it
\* returns no line.
C10_AllFreeOneLine ==
    (pc = "build_resumen_lines" /\ \A i \in 1..Len(daily_info) : daily_info[i].label = LIBRE)
    => IF Len(daily_info) = 0 THEN lines = << >>
       ELSE lines = << compress_days([i \in 1..Len(daily_info) |-> daily_info[i].wd])
                          \o << " ", ":", " ", "L", "I", "B", "R", "E" >> >>

\* build_resumen_lines has run on three free days given out of order.
C10_Witness ==
    /\ pc = "build_resumen_lines"
    /\ Len(daily_info) = 3
    /\ \A i \in 1..3 : daily_info[i].label = LIBRE
    /\ << daily_info[1].wd, daily_info[2].wd, daily_info[3].wd >> = << 4, 2, 3 >>
    /\ lines = << << "X", " ", "-", " ", "V", " ", ":", " ", "L", "I", "B", "R", "E" >> >>

\* The days of a full set whose code is non-empty and different from "LIBRE".
NonFreeDays(info) ==
    {i \in 1..Len(info) : info[i].label # << >> /\ info[i].label # LIBRE}

\* Number of non-free days of the organization org.
Occurrences(info, org) ==
    Cardinality({i \in NonFreeDays(info) : get_company_for_code(info[i].label) = org})

\* s comes before t in lexical order: at the first position where they differ
\* s has the smaller character, or s is a proper prefix of t.
LexBefore(s, t) ==
    \E k \in 1..(Len(t)) :
        /\ k <= Len(s) + 1
        /\ \A i \in 1..(k - 1) : s[i] = t[i]
        /\ k = Len(s) + 1 \/ ord[s[k]] < ord[t[k]]

Aranco == << "A", "r", "a", "n", "c", "o" >>

\* C4: get_main_company_from_daily_info returns "LIBRE" exactly when no day
\* has a code that is non-empty and different from "LIBRE"; otherwise it
\* returns an organization of the non-free days whose number of occurrences is
\* maximal, the lexically smallest of those, whatever the order of the days;
\* a 2-2 tie between "Aranco" and "Bidafarma" gives "Aranco".
C4_MainCompany ==
    pc = "get_main_company_from_daily_info" =>
        LET orgs == {get_company_for_code(daily_info[i].label) : i \in NonFreeDays(daily_info)}
        IN  /\ main_company = LIBRE <=> NonFreeDays(daily_info) = {}
            /\ NonFreeDays(daily_info) # {} =>
                 /\ main_company \in orgs
                 /\ \A o \in orgs \ {main_company} :
                      \/ Occurrences(daily_info, main_company) > Occurrences(daily_info, o)
                      \/ /\ Occurrences(daily_info, main_company) = Occurrences(daily_info, o)
                         /\ LexBefore(main_company, o)
            /\ ( /\ Occurrences(daily_info, Aranco) = 2
                 /\ Occurrences(daily_info, << "B", "i", "d", "a", "f", "a", "r", "m", "a" >>) = 2
                 /\ Cardinality(NonFreeDays(daily_info)) = 4 )
               => main_company = Aranco

\* get_main_company_from_daily_info has run on a 2-2 tie in which "Bidafarma"
\* comes first.
C4_Witness ==
    /\ pc = "get_main_company_from_daily_info"
    /\ [i \in 1..Len(daily_info) |-> daily_info[i].label]
         = << << "B", "F" >>, << "A", "R" >>, << "B", "F" >>, << "A", "R" >> >>
    /\ main_company = Aranco

-----------------------------------------------------------------------------
(* Claims on the GridLocator and the AssignmentResolver.                    *)

\* A string composed entirely of digits; and one that is so once trimmed.
AllDigit(cell) == cell # << >> /\ \A i \in 1..Len(cell) : cell[i] \in Digit
AllDigitTrimmed(cell) == AllDigit(Trimmed(cell))

\* The rows among the first 10 with at least 5 cells, from column 2 on, that
\* satisfy IsDay.
QualifyingRows(g, IsDay(_)) ==
    {i \in DOMAIN g :
        i < 10 /\ Cardinality({c \in DOMAIN g[i] : c >= 2 /\ IsDay(g[i][c])}) >= 5}

\* What C8 states of find_day_row and load_month_sheet, for a reading IsDay of
\* "all-digit string".
HeaderRowFound(IsDay(_)) ==
    LET q == QualifyingRows(df, IsDay)
    IN  /\ day_row_idx = None <=> q = {}
        /\ q # {} => day_row_idx \in q /\ \A i \in q : day_row_idx <= i
        /\ day_row_idx = None <=> month_sheet.error
        /\ month_sheet.error => month_sheet = NoSheet(TRUE)

\* C8 (original statement): find_day_row returns the smallest row index
\* i < min(10, rowCount) whose cells from column 2 on include at least 5
\* all-digit strings, and None exactly when there is none among the first 10
\* rows; on None load_month_sheet raises and produces no MonthSheet.
C8_Original == pc = "load_month_sheet" => HeaderRowFound(AllDigit)

\* C8 (amended): the same, a cell counting when it is an all-digit string
\* once the whitespace around it is trimmed.
C8_HeaderRow == pc = "load_month_sheet" => HeaderRowFound(AllDigitTrimmed)

\* load_month_sheet has run on a sheet of 12 rows whose only header-like row
\* is row 10, and has raised.
C8_Witness ==
    /\ pc = "load_month_sheet"
    /\ len(df) = 12
    /\ df[10] = StrongRow
    /\ \A r \in 0..9 : df[r] = BlankRow(7)
    /\ day_row_idx = None
    /\ month_sheet.error

\* C7 (the claim): every key of day_col_map is an integer in 1..31, and its
\* value is a column >= 2 of the header row holding that day, the rightmost
\* such column.
C7_DayKeys ==
    (pc = "load_month_sheet" /\ ~month_sheet.error) =>
        \A d \in DOMAIN month_sheet.day_col_map :
            LET col == month_sheet.day_col_map[d]
                IsDayCell(c) ==
                    /\ AllDigitTrimmed(df[day_row_idx][c])
                    /\ DecimalValue(Trimmed(df[day_row_idx][c])) = d
            IN  /\ d \in 1..31
                /\ col \in DOMAIN df[day_row_idx] /\ col >= 2
                /\ IsDayCell(col)
                /\ \A c \in DOMAIN df[day_row_idx] : (c >= 2 /\ IsDayCell(c)) => c <= col

\* C9: the rows scanned are h+2 .. min(rowCount, 82)-1; tech_names is the
\* sequence of the trimmed column-1 values of the rows accepted by
\* is_person_name, in ascending row order, one entry per accepted row;
\* tech_row_map maps each normalized name to the greatest accepted row that
\* carries it; every entry of tech_names normalizes to a key of tech_row_map,
\* which has at most as many keys as tech_names has entries.
C9_PersonRows ==
    (pc = "load_month_sheet" /\ ~month_sheet.error) =>
        LET rowCount == Cardinality(DOMAIN df)
            scanned  == {r \in DOMAIN df :
                            r >= day_row_idx + 2 /\ r < rowCount /\ r < 82}
            accepted == {r \in scanned : is_person_name(df[r][1])}
            names    == month_sheet.tech_names
            rows     == month_sheet.tech_row_map
        IN  /\ Len(names) = Cardinality(accepted)
            /\ \A k \in 1..Len(names) : names[k] = Trimmed(df[Kth(accepted, k)][1])
            /\ DOMAIN rows = {normalize_name(df[r][1]) : r \in accepted}
            /\ \A key \in DOMAIN rows :
                 /\ rows[key] \in accepted
                 /\ normalize_name(df[rows[key]][1]) = key
                 /\ \A r \in accepted : normalize_name(df[r][1]) = key => r <= rows[key]
            /\ \A k \in 1..Len(names) : normalize_name(names[k]) \in DOMAIN rows
            /\ Cardinality(DOMAIN rows) <= Len(names)

\* load_month_sheet has run on a sheet of 84 rows with the header in row 0,
\* a name in row 81 (the last row read) and one in row 82 (not read) that
\* normalizes identically.
C9_Witness ==
    /\ pc = "load_month_sheet"
    /\ len(df) = 84
    /\ day_row_idx = 0
    /\ df[81][1] = << "A", "n", "a", " ", "P", "a", "z" >>
    /\ df[82][1] = << " ", "a", "n", "a", " ", "\t", "p", "a", "z", " " >>
    /\ month_sheet.tech_names = << << "A", "n", "a", " ", "P", "a", "z" >> >>
    /\ month_sheet.tech_row_map = (<< "A", "N", "A", " ", "P", "A", "Z" >> :> 81)

\* The words of a name, lower-cased: two names differ only in letter case or
\* whitespace runs when they have the same words.
WordsOf(s) ==
    LET starts == {t[1] : t \in Parts(s)}
        Word(k) == LET t == CHOOSE u \in Parts(s) : u[1] = Kth(starts, k)
                   IN  str_lower(SubSeq(s, t[1], t[2]))
    IN  [k \in 1..Cardinality(starts) |-> Word(k)]

\* C6: get_assignment never returns "D"; it returns "" when the normalized
\* name is no key of tech_row_map, when the day is no key of day_col_map, or
\* when the trimmed cell is empty or exactly "D", and the trimmed cell
\* otherwise; names that differ only in letter case or whitespace runs give
\* the same result.
C6_Assignment ==
    pc = "get_assignment" =>
        /\ assignment # << "D" >>
        /\ IF \/ normalize_name(tech_name) \notin DOMAIN month_sheet.tech_row_map
              \/ day \notin DOMAIN month_sheet.day_col_map
           THEN assignment = << >>
           ELSE LET cell == Trimmed(df[month_sheet.tech_row_map[normalize_name(tech_name)]]
                                      [month_sheet.day_col_map[day]])
                IN  IF cell = << >> \/ cell = << "D" >> THEN assignment = << >>
                    ELSE assignment = cell
        /\ \A other \in QueryNames :
               WordsOf(other) = WordsOf(tech_name)
               => get_assignment(month_sheet, df, other, day) = assignment

\* get_assignment has run for a name written in another letter case and
\* spacing than in the sheet, on a cell holding "D" with whitespace around it.
C6_Witness ==
    /\ pc = "get_assignment"
    /\ tech_name = << "\t", "A", "N", "A", " ", " ", " ", "p", "a", "z", " " >>
    /\ day = 1
    /\ df[2][1] = << "A", "n", "a", " ", "P", "a", "z" >>
    /\ df[3][1] = << "J", "u", "a", "n" >>
    /\ df[2][2] = << " ", "D", " " >>
    /\ assignment = << >>

-----------------------------------------------------------------------------
(* Claim on the weekly pipeline.                                            *)

\* The assignment of the technician on the i-th date of the week.
AssignmentOf(i) == get_assignment(month_sheet, df, tech_name, week_dates[i].day)

\* The assignment is free as get_assignment reports it: the empty string.
FreeAssignment(i) == AssignmentOf(i) = << >>

\* The day is labelled "LIBRE": its assignment is empty, or it is the text
\* "LIBRE" itself.
FreeLabel(i) == AssignmentOf(i) = << >> \/ AssignmentOf(i) = LIBRE

\* The weekdays of the days of a group.
GroupWeekdays(group) == {group.days[k][1] : k \in 1..Len(group.days)}

\* The statement of the claim, for a reading Free(i) of "the assignment of
\* the i-th day is free".
WeekPipeline(Free(_)) ==
    LET n    == Len(week_dates)
        kept == {i \in 1..n :
                    ~((week_dates[i].wd \in {5, 6} \/ week_dates[i].is_fest) /\ Free(i))}
    IN  \* the full set holds every day of the week, in order
        /\ Len(daily_info_all) = n
        /\ \A i \in 1..n :
              /\ daily_info_all[i].wd = week_dates[i].wd
              /\ daily_info_all[i].is_fest = week_dates[i].is_fest
              /\ daily_info_all[i].label = IF FreeAssignment(i) THEN LIBRE ELSE AssignmentOf(i)
        \* a day is left out if and only if it is a Saturday, Sunday or holiday
        \* and free
        /\ Len(daily_info_resumen) = Cardinality(kept)
        /\ \A k \in 1..Len(daily_info_resumen) :
              daily_info_resumen[k] = daily_info_all[Kth(kept, k)]
        \* every day with a non-free code reaches build_resumen_lines
        /\ \A i \in 1..n :
              ~Free(i) => \E k \in 1..Len(daily_info_resumen) :
                              /\ daily_info_resumen[k].wd = week_dates[i].wd
                              /\ daily_info_resumen[k].label = AssignmentOf(i)
        \* the main organization has a group, under its upper-cased name
        /\ main_company # LIBRE =>
              \E g \in 1..Len(groups) : groups[g].key = str_upper(main_company)
        \* the groups split the weekdays of the included days, and each line
        \* starts with the days of its group
        /\ \A g, h \in 1..Len(groups) :
              g # h => GroupWeekdays(groups[g]) \cap GroupWeekdays(groups[h]) = {}
        /\ \A g \in 1..Len(groups) :
              Cardinality(GroupWeekdays(groups[g])) = Len(groups[g].days)
        /\ UNION {GroupWeekdays(groups[g]) : g \in 1..Len(groups)}
              = {daily_info_resumen[k].wd : k \in 1..Len(daily_info_resumen)}
        /\ Len(lines) = Len(groups)
        /\ \A g \in 1..Len(groups) :
              IsLine(lines[g]) /\ LineDays(lines[g]) = GroupWeekdays(groups[g])

\* C11 (the claim): a day is left out of the included set if and only if it
\* is a Saturday, Sunday or holiday and its assignment is free (empty), so
\* every day with a non-free code reaches build_resumen_lines; when the main
\* organization is not "LIBRE" a group has its upper-cased name as key; the
\* weekday sets of the groups are pairwise disjoint and cover the included days.
C11_Original == pc = "main" => WeekPipeline(FreeAssignment)

\* C11 (amended): a day is left out of the included set if and only if it is
\* a Saturday, Sunday or holiday and its label is "LIBRE", that is, its
\* assignment is empty or is the text "LIBRE"; every day whose assignment is
\* neither reaches build_resumen_lines; when the main organization is not
\* "LIBRE" a group has its upper-cased name as key; the weekday sets of the
\* groups are pairwise disjoint and cover the weekdays of the included days.
C11_WeekPipeline == pc = "main" => WeekPipeline(FreeLabel)

\* main has summarised a week of Friday, Saturday and Sunday for a technician
\* with a code on Friday, the text "LIBRE" on Saturday and "D" on Sunday: only
\* Friday is included, and the group of the main organization is there.
C11_Witness ==
    /\ pc = "main"
    /\ Len(week_dates) = 3
    /\ << week_dates[1].wd, week_dates[2].wd, week_dates[3].wd >> = << 4, 5, 6 >>
    /\ Len(daily_info_all) = 3
    /\ << daily_info_all[1].label, daily_info_all[2].label, daily_info_all[3].label >>
           = << << "M", "1" >>, LIBRE, LIBRE >>
    /\ AssignmentOf(2) = LIBRE
    /\ AssignmentOf(3) = << >>
    /\ Len(daily_info_resumen) = 1
    /\ main_company = << "P", "e", "r", "s", "a", "n", " ", "t", "u", "r", "n", "o", "s" >>
    /\ lines = << << "V", " ", ":", " ", "M", "1", " ", "(" >> \o main_company \o << ")" >> >>

=============================================================================
